---- MODULE Spec2Model ----
(***************************************************************************)
(* Model of MorkDB/filter/output/xml.py: the XML output filter of the     *)
(* Mork converter.  Text is a sequence of code points (naturals); a line  *)
(* of the output file is the text handed to one print statement.          *)
(***************************************************************************)
EXTENDS Naturals, Sequences, FiniteSets, TLC

VARIABLES
    value,      \* escaper: the argument of _formatAttribute/_formatElementText
    called,     \* escaper: which of the two functions has returned
    result,     \* escaper: the returned text
    db,         \* writer: the database, [tables, metaTables]
    pc,         \* writer: position in _outputHelper and its callees
    f,          \* writer: the file object, [opened, closed, data]
    ti,         \* writer: index of the current entry of db.tables.items()
    ri,         \* writer: index of the current row of the loop in progress
    ci,         \* writer: index of the current cell of the loop in progress
    indent,     \* writer: the indent argument of the innermost call
    warnings    \* number of calls of warnings.warn so far

vars == <<value, called, result, db, pc, f, ti, ri, ci, indent, warnings>>

(***************************************************************************)
(* Code points used by the program text.                                   *)
(***************************************************************************)
LT     == 60
GT     == 62
AMP    == 38
QUOT   == 34
APOS   == 39
RBRACK == 93

\* The text ']]>' of _replacements and _non_char_data_matcher.
CDEND == <<RBRACK, RBRACK, GT>>

\* _non_char: the code points outside the 'Char' production.
\* Variant: every control character below U+0020 taken as illegal.
NonCharHeuristic == (0..31) \cup (55296..57343) \cup {65534, 65535}
_non_char == (0..8) \cup {11, 12} \cup (14..31) \cup (55296..57343) \cup {65534, 65535}

\* One match attempt of _non_att_value_matcher at position i of s: the
\* length of the match, 0 when the pattern does not match there.
\* Variant: the pattern without the double quote.
AttMatchLenNoQuot(s, i) ==
    IF s[i] \in _non_char \/ s[i] \in {LT, AMP} THEN 1 ELSE 0
_non_att_value_matcher(s, i) ==
    IF s[i] \in _non_char \/ s[i] \in {LT, AMP, QUOT} THEN 1 ELSE 0

\* One match attempt of _non_char_data_matcher at position i of s; the
\* alternatives are tried in the order of the pattern.
\* Variant: the pattern without the ']]>' alternative.
CharDataMatchLenNoCdEnd(s, i) ==
    IF s[i] \in _non_char \/ s[i] \in {LT, AMP} THEN 1 ELSE 0
_non_char_data_matcher(s, i) ==
    IF s[i] \in _non_char THEN 1
    ELSE IF s[i] \in {LT, AMP} THEN 1
    ELSE IF i + 2 <= Len(s) /\ SubSeq(s, i, i + 2) = CDEND THEN 3
    ELSE 0

\* The dictionary _replacements.
\*   '<' : '&lt;'   '>' : '&gt;'   '&' : '&amp;'   '"' : '&quot;'
\*   "'" : '&apos;'   ']]>' : ']]&gt;'
ReplacementKeys == {<<LT>>, <<GT>>, <<AMP>>, <<QUOT>>, <<APOS>>, CDEND}
_replacements == [old \in ReplacementKeys |->
    CASE old = <<LT>>   -> <<AMP, 108, 116, 59>>
      [] old = <<GT>>   -> <<AMP, 103, 116, 59>>
      [] old = <<AMP>>  -> <<AMP, 97, 109, 112, 59>>
      [] old = <<QUOT>> -> <<AMP, 113, 117, 111, 116, 59>>
      [] old = <<APOS>> -> <<AMP, 97, 112, 111, 115, 59>>
      [] old = CDEND    -> <<RBRACK, RBRACK, AMP, 103, 116, 59>>]

\* '%x' % n: lower-case hexadecimal, no padding.
HexDigit(d) == IF d < 10 THEN 48 + d ELSE 87 + d
\* Variant: '%02x', padded to two digits.
RECURSIVE HexPadded(_)
HexPadded(n) == IF n < 16 THEN <<48, HexDigit(n)>>
                ELSE IF n < 256 THEN <<HexDigit(n \div 16), HexDigit(n % 16)>>
                ELSE Append(HexPadded(n \div 16), HexDigit(n % 16))
RECURSIVE Hex(_)
Hex(n) == IF n < 16 THEN <<HexDigit(n)>>
          ELSE Append(Hex(n \div 16), HexDigit(n % 16))

\* _replacer(match): the replacement text and the number of warnings raised.
\* '&#x%x;' % ord(old) for a match that _replacements does not hold.
_replacer(old) ==
    IF old \in ReplacementKeys
    THEN [new |-> _replacements[old], warned |-> 0]
    ELSE [new |-> <<AMP, 35, 120>> \o Hex(old[1]) \o <<59>>, warned |-> 1]

\* matcher.sub(_replacer, s) from position i on: at each position the
\* pattern is tried; a match is replaced and the scan resumes after it, a
\* character where nothing matches is copied.
RECURSIVE AttSubFrom(_, _)
AttSubFrom(s, i) ==
    IF i > Len(s) THEN [out |-> <<>>, warned |-> 0]
    ELSE LET n == _non_att_value_matcher(s, i) IN
         IF n = 0
         THEN LET rest == AttSubFrom(s, i + 1) IN
              [out |-> <<s[i]>> \o rest.out, warned |-> rest.warned]
         ELSE LET r == _replacer(SubSeq(s, i, i + n - 1))
                  rest == AttSubFrom(s, i + n) IN
              [out |-> r.new \o rest.out, warned |-> r.warned + rest.warned]

\* Variant: a sub that scans the text it has substituted once more.
RECURSIVE AmpAgain(_)
AmpAgain(t) ==
    IF t = <<>> THEN <<>>
    ELSE (IF t[1] = AMP THEN _replacements[<<AMP>>] ELSE <<t[1]>>) \o AmpAgain(Tail(t))
RECURSIVE CharDataSubRescan(_, _)
CharDataSubRescan(s, i) ==
    IF i > Len(s) THEN [out |-> <<>>, warned |-> 0]
    ELSE LET n == _non_char_data_matcher(s, i) IN
         IF n = 0
         THEN LET rest == CharDataSubRescan(s, i + 1) IN
              [out |-> <<s[i]>> \o rest.out, warned |-> rest.warned]
         ELSE LET r == _replacer(SubSeq(s, i, i + n - 1))
                  rest == CharDataSubRescan(s, i + n) IN
              [out |-> AmpAgain(r.new) \o rest.out, warned |-> r.warned + rest.warned]
RECURSIVE CharDataSubFrom(_, _)
CharDataSubFrom(s, i) ==
    IF i > Len(s) THEN [out |-> <<>>, warned |-> 0]
    ELSE LET n == _non_char_data_matcher(s, i) IN
         IF n = 0
         THEN LET rest == CharDataSubFrom(s, i + 1) IN
              [out |-> <<s[i]>> \o rest.out, warned |-> rest.warned]
         ELSE LET r == _replacer(SubSeq(s, i, i + n - 1))
                  rest == CharDataSubFrom(s, i + n) IN
              [out |-> r.new \o rest.out, warned |-> r.warned + rest.warned]

\* _formatAttribute(value): '"%s"' % _non_att_value_matcher.sub(...)
_formatAttribute(v) ==
    LET r == AttSubFrom(v, 1) IN
    [out |-> <<QUOT>> \o r.out \o <<QUOT>>, warned |-> r.warned]

\* _formatElementText(value): _non_char_data_matcher.sub(...)
_formatElementText(v) == CharDataSubFrom(v, 1)

(***************************************************************************)
(* The tree writer.  The file is the text written so far; print appends    *)
(* its argument and a line feed.                                           *)
(***************************************************************************)
LF == 10
SPACE == 32

\* '<?xml version="1.0" encoding="UTF-8" ?>'
XmlDecl == <<60, 63, 120, 109, 108, 32, 118, 101, 114, 115, 105, 111, 110, 61,
             34, 49, 46, 48, 34, 32, 101, 110, 99, 111, 100, 105, 110, 103, 61,
             34, 85, 84, 70, 45, 56, 34, 32, 63, 62>>
\* '<morkxml>' and '</morkxml>'
RootOpen  == <<60, 109, 111, 114, 107, 120, 109, 108, 62>>
RootClose == <<60, 47, 109, 111, 114, 107, 120, 109, 108, 62>>
\* '<table namespace=', ' id=', '</table>'
TableOpenA == <<60, 116, 97, 98, 108, 101, 32, 110, 97, 109, 101, 115, 112, 97, 99, 101, 61>>
IdEq       == <<32, 105, 100, 61>>
TableClose == <<60, 47, 116, 97, 98, 108, 101, 62>>
\* '<metatable>' and '</metatable>'
MetaOpen  == <<60, 109, 101, 116, 97, 116, 97, 98, 108, 101, 62>>
MetaClose == <<60, 47, 109, 101, 116, 97, 116, 97, 98, 108, 101, 62>>
\* '<row namespace=' and '</row>'
RowOpenA == <<60, 114, 111, 119, 32, 110, 97, 109, 101, 115, 112, 97, 99, 101, 61>>
RowClose == <<60, 47, 114, 111, 119, 62>>
\* '<cell column=' and '</cell>'
CellOpenA == <<60, 99, 101, 108, 108, 32, 99, 111, 108, 117, 109, 110, 61>>
CellClose == <<60, 47, 99, 101, 108, 108, 62>>

\* _indentStr = '    '
\* Variant: one tab per level.
IndentTab == <<9>>
_indentStr == <<SPACE, SPACE, SPACE, SPACE>>
\* _indentStr * n
RECURSIVE IndentStr(_)
IndentStr(n) == IF n = 0 THEN <<>> ELSE _indentStr \o IndentStr(n - 1)

\* The texts the print statements of _writeTable, _writeRow and _writeCell
\* format, with the warnings the escaper raised on the way.
TableOpenText(ind, namespace, oid) ==
    [text   |-> IndentStr(ind) \o TableOpenA \o _formatAttribute(namespace).out
                \o IdEq \o _formatAttribute(oid).out \o <<GT>>,
     warned |-> _formatAttribute(namespace).warned + _formatAttribute(oid).warned]
RowOpenText(ind, namespace, oid) ==
    [text   |-> IndentStr(ind) \o RowOpenA \o _formatAttribute(namespace).out
                \o IdEq \o _formatAttribute(oid).out \o <<GT>>,
     warned |-> _formatAttribute(namespace).warned + _formatAttribute(oid).warned]
\* Variant: the cell value escaped as an attribute value is.
CellTextBothAttribute(ind, column, val) ==
    [text   |-> IndentStr(ind) \o CellOpenA \o _formatAttribute(column).out
                \o <<GT>> \o AttSubFrom(val, 1).out \o CellClose,
     warned |-> _formatAttribute(column).warned + _formatAttribute(val).warned]
CellText(ind, column, val) ==
    [text   |-> IndentStr(ind) \o CellOpenA \o _formatAttribute(column).out
                \o <<GT>> \o _formatElementText(val).out \o CellClose,
     warned |-> _formatAttribute(column).warned + _formatElementText(val).warned]

\* print >> f, text
Println(text) == f' = [f EXCEPT !.data = @ \o text \o <<LF>>]

\* The entry of db.tables.items() the loop of _outputHelper is at.
CurTable == db.tables[ti]
CurKey == <<CurTable.ns, CurTable.oid>>
\* db.metaTables.get((namespace, oid)) is not None, and its value.
\* Variant: _writeTable called without meta (its default, None).
HasMetaNever == FALSE
HasMeta == CurKey \in DOMAIN db.metaTables
CurMeta == db.metaTables[CurKey]
\* The rows the row loop in progress runs over: table (line 65) or
\* meta.rows (line 80).
CurRows == IF pc \in {"rows", "cells"} THEN CurTable.rows ELSE CurMeta.rows
\* The cells the cell loop in progress runs over: row.items() (line 90) or
\* meta.cells.items() (line 77).
\* Variant: the cells in the reverse of their stored order.
CurCellsReversed ==
    LET cs == IF pc = "mcells" THEN CurMeta.cells ELSE CurRows[ri].cells IN
    [i \in 1..Len(cs) |-> cs[Len(cs) + 1 - i]]
CurCells == IF pc = "mcells" THEN CurMeta.cells ELSE CurRows[ri].cells

Open ==
    /\ pc = "open"
    /\ f' = [opened |-> TRUE, closed |-> FALSE, data |-> <<>>]
    /\ pc' = "decl"
    /\ UNCHANGED <<value, called, result, db, ti, ri, ci, indent, warnings>>

PrintDecl ==
    /\ pc = "decl"
    /\ Println(XmlDecl)
    /\ pc' = "root"
    /\ UNCHANGED <<value, called, result, db, ti, ri, ci, indent, warnings>>

PrintRoot ==
    /\ pc = "root"
    /\ Println(RootOpen)
    /\ pc' = "tables"
    /\ ti' = 1
    /\ UNCHANGED <<value, called, result, db, ri, ci, indent, warnings>>

\* _writeTable is entered with indent=1 and prints its opening tag.
WriteTableOpen ==
    /\ pc = "tables"
    /\ ti <= Len(db.tables)
    /\ LET t == TableOpenText(1, CurTable.ns, CurTable.oid) IN
       /\ Println(t.text)
       /\ warnings' = warnings + t.warned
    /\ indent' = 1
    /\ ri' = 1
    /\ pc' = "rows"
    /\ UNCHANGED <<value, called, result, db, ti, ci>>

\* _writeRow is entered with indent + 1 and prints its opening tag.
WriteRowOpen ==
    /\ pc \in {"rows", "mrows"}
    /\ ri <= Len(CurRows)
    /\ LET t == RowOpenText(indent + 1, CurRows[ri].ns, CurRows[ri].oid) IN
       /\ Println(t.text)
       /\ warnings' = warnings + t.warned
    /\ indent' = indent + 1
    /\ ci' = 1
    /\ pc' = IF pc = "rows" THEN "cells" ELSE "mrcells"
    /\ UNCHANGED <<value, called, result, db, ti, ri>>

\* _writeCell is entered with indent + 1, prints the cell and returns.
WriteCell ==
    /\ pc \in {"cells", "mrcells", "mcells"}
    /\ ci <= Len(CurCells)
    /\ LET t == CellText(indent + 1, CurCells[ci].column, CurCells[ci].val) IN
       /\ Println(t.text)
       /\ warnings' = warnings + t.warned
    /\ ci' = ci + 1
    /\ UNCHANGED <<value, called, result, db, pc, ti, ri, indent>>

\* _writeRow prints its closing tag and returns to the row loop.
WriteRowClose ==
    /\ pc \in {"cells", "mrcells"}
    /\ ci > Len(CurCells)
    /\ Println(IndentStr(indent) \o RowClose)
    /\ indent' = indent - 1
    /\ ri' = ri + 1
    /\ pc' = IF pc = "cells" THEN "rows" ELSE "mrows"
    /\ UNCHANGED <<value, called, result, db, ti, ci, warnings>>

\* The row loop of _writeTable is over and meta is not None:
\* _writeMetaTable is entered with indent + 1 and prints its opening tag.
WriteMetaOpen ==
    /\ pc = "rows"
    /\ ri > Len(CurRows)
    /\ HasMeta
    /\ Println(IndentStr(indent + 1) \o MetaOpen)
    /\ indent' = indent + 1
    /\ ci' = 1
    /\ pc' = "mcells"
    /\ UNCHANGED <<value, called, result, db, ti, ri, warnings>>

\* The cell loop of _writeMetaTable is over; its row loop starts.
MetaCellsDone ==
    /\ pc = "mcells"
    /\ ci > Len(CurCells)
    /\ ri' = 1
    /\ pc' = "mrows"
    /\ UNCHANGED <<value, called, result, db, f, ti, ci, indent, warnings>>

\* _writeMetaTable prints its closing tag and returns to _writeTable.
WriteMetaClose ==
    /\ pc = "mrows"
    /\ ri > Len(CurRows)
    /\ Println(IndentStr(indent) \o MetaClose)
    /\ indent' = indent - 1
    /\ pc' = "endtable"
    /\ UNCHANGED <<value, called, result, db, ti, ri, ci, warnings>>

\* _writeTable prints its closing tag and returns to the table loop.
WriteTableClose ==
    /\ \/ pc = "endtable"
       \/ pc = "rows" /\ ri > Len(CurRows) /\ ~HasMeta
    /\ Println(IndentStr(indent) \o TableClose)
    /\ indent' = indent - 1
    /\ ti' = ti + 1
    /\ pc' = "tables"
    /\ UNCHANGED <<value, called, result, db, ri, ci, warnings>>

\* The table loop is over: the closing root tag.
PrintRootClose ==
    /\ pc = "tables"
    /\ ti > Len(db.tables)
    /\ Println(RootClose)
    /\ pc' = "close"
    /\ UNCHANGED <<value, called, result, db, ti, ri, ci, indent, warnings>>

\* f.close()
Close ==
    /\ pc = "close"
    /\ f' = [f EXCEPT !.closed = TRUE]
    /\ pc' = "done"
    /\ UNCHANGED <<value, called, result, db, ti, ri, ci, indent, warnings>>

\* codecs.open raises: _outputHelper is left with no file.
OpenFails ==
    /\ pc = "open"
    /\ pc' = "raised"
    /\ UNCHANGED <<value, called, result, db, f, ti, ri, ci, indent, warnings>>

\* A print raises (the write to the file fails): the exception leaves
\* _outputHelper through every frame; no handler and no finally clause runs.
WriteFails ==
    /\ \/ pc \in {"decl", "root", "tables", "cells", "mrcells", "endtable"}
       \/ pc = "rows"
       \/ pc = "mcells" /\ ci <= Len(CurCells)
       \/ pc = "mrows"
    /\ pc' = "raised"
    /\ UNCHANGED <<value, called, result, db, f, ti, ri, ci, indent, warnings>>

(***************************************************************************)
(* The escaper on its own: one call of _formatAttribute or of              *)
(* _formatElementText on a text drawn from bounded sets.                   *)
(***************************************************************************)
MaxLen     == 3
MaxDeepLen == 6

SeqsUpTo(S, n) == UNION {[1..k -> S] : k \in 0..n}

\* < & " ' > ] a TAB LF CR, and illegal NUL VT U+001F U+D800 U+FFFF
Alphabet == {LT, AMP, QUOT, APOS, GT, RBRACK, 97, 9, 10, 13, 0, 11, 31, 55296, 65535}
\* ] > & for the overlapping ']]>' cases
DeepAlphabet == {RBRACK, GT, AMP}
\* every ASCII code point and the edges of the surrogate and U+FFFE ranges
EdgeChars == (0..127) \cup {55295, 55296, 56319, 56320, 57343, 57344,
                            65533, 65534, 65535, 65536}
\* '&lt;'  '&amp;'  '&#x0;'
Examples == {<<AMP, 108, 116, 59>>, <<AMP, 97, 109, 112, 59>>,
             <<AMP, 35, 120, 48, 59>>}

Inputs == SeqsUpTo(Alphabet, MaxLen) \cup SeqsUpTo(DeepAlphabet, MaxDeepLen)
          \cup {<<c>> : c \in EdgeChars} \cup Examples

NoDb == [tables |-> <<>>, metaTables |-> <<>>]
NoFile == [opened |-> FALSE, closed |-> FALSE, data |-> <<>>]

InitEsc ==
    /\ value \in Inputs
    /\ called = "none"
    /\ result = <<>>
    /\ warnings = 0
    /\ db = NoDb
    /\ pc = "idle"
    /\ f = NoFile
    /\ ti = 0 /\ ri = 0 /\ ci = 0 /\ indent = 0

CallFormatAttribute ==
    /\ called = "none"
    /\ LET r == _formatAttribute(value) IN
       /\ result' = r.out
       /\ warnings' = warnings + r.warned
    /\ called' = "attribute"
    /\ UNCHANGED <<value, db, pc, f, ti, ri, ci, indent>>

CallFormatElementText ==
    /\ called = "none"
    /\ LET r == _formatElementText(value) IN
       /\ result' = r.out
       /\ warnings' = warnings + r.warned
    /\ called' = "text"
    /\ UNCHANGED <<value, db, pc, f, ti, ri, ci, indent>>

NextEsc == CallFormatAttribute \/ CallFormatElementText

SpecEsc == InitEsc /\ [][NextEsc]_vars

(***************************************************************************)
(* The writer on databases drawn from bounded sets: every database of at   *)
(* most MaxNodes tables, rows, cells and metatables over a few names, and  *)
(* every one-table, one-row, one-cell database over short texts.           *)
(***************************************************************************)
MaxNodes   == 5
MaxTextLen == 1

\* (namespace, id) of tables: ('n', '1') and ('n', '2')
TableKeys == {<<(<<110>>), (<<49>>)>>, <<(<<110>>), (<<50>>)>>}
\* (namespace, id) of rows: ('r', '1') and ('r', '2')
RowKeys == {<<(<<114>>), (<<49>>)>>, <<(<<114>>), (<<50>>)>>}
\* column names 'c' and 'a"b'; the cell value 'a"b'
Cols == {<<99>>, <<97, QUOT, 98>>}
Vals == {<<97, QUOT, 98>>}
\* " ' & LF
TextAlphabet == {QUOT, APOS, AMP, LF}
Texts == SeqsUpTo(TextAlphabet, MaxTextLen)

Min(a, b) == IF a < b THEN a ELSE b

\* Row.items(), MetaTable.cells.items(): at most n cells, columns unique.
CellSeqs(n) ==
    UNION {{s \in [1..k -> [column : Cols, val : Vals]] :
               \A i, j \in 1..k : i # j => s[i].column # s[j].column}
           : k \in 0..Min(n, Cardinality(Cols))}

\* The number of rows and cells of a sequence of rows.
RECURSIVE RowsSize(_)
RowsSize(rs) == IF rs = <<>> THEN 0
                ELSE 1 + Len(rs[1].cells) + RowsSize(Tail(rs))

\* Sequences of (namespace, id, row) of at most n rows and cells.
RECURSIVE RowSeqs(_)
RowSeqs(n) ==
    {<<>>} \cup
    (IF n = 0 THEN {}
     ELSE UNION {UNION {{<<[ns |-> k[1], oid |-> k[2], cells |-> cs]>> \o rest
                            : rest \in RowSeqs(n - 1 - Len(cs))}
                        : cs \in CellSeqs(n - 1)}
                 : k \in RowKeys})

\* MetaTables of at most n metatables, rows and cells.
Metas(n) ==
    IF n = 0 THEN {}
    ELSE UNION {{[cells |-> cs, rows |-> rs] : rs \in RowSeqs(n - 1 - Len(cs))}
                : cs \in CellSeqs(n - 1)}
MetaSize(m) == 1 + Len(m.cells) + RowsSize(m.rows)

\* db.tables.items(): (namespace, id, table) with unique keys, of at most n
\* tables, rows and cells.
RECURSIVE TableSeqs(_, _)
TableSeqs(n, keys) ==
    {<<>>} \cup
    (IF n = 0 THEN {}
     ELSE UNION {UNION {{<<[ns |-> k[1], oid |-> k[2], rows |-> rs]>> \o rest
                            : rest \in TableSeqs(n - 1 - RowsSize(rs), keys \ {k})}
                        : rs \in RowSeqs(n - 1)}
                 : k \in keys})
RECURSIVE TablesSize(_)
TablesSize(ts) == IF ts = <<>> THEN 0
                  ELSE 1 + RowsSize(ts[1].rows) + TablesSize(Tail(ts))

\* db.metaTables: a mapping from some keys to MetaTables, of at most n
\* metatables, rows and cells in all.
RECURSIVE MetaMaps(_, _)
MetaMaps(n, keys) ==
    IF keys = {} THEN {<<>>}
    ELSE LET k == CHOOSE x \in keys : TRUE IN
         MetaMaps(n, keys \ {k}) \cup
         UNION {{(k :> m) @@ rest : rest \in MetaMaps(n - MetaSize(m), keys \ {k})}
                : m \in Metas(n)}

StructDBs ==
    UNION {{[tables |-> ts, metaTables |-> mm]
               : mm \in MetaMaps(MaxNodes - TablesSize(ts), TableKeys)}
           : ts \in TableSeqs(MaxNodes, TableKeys)}

TextDBs ==
    {[tables |-> <<[ns |-> t, oid |-> t,
                    rows |-> <<[ns |-> t, oid |-> t,
                                cells |-> <<[column |-> u, val |-> v]>>]>>]>>,
      metaTables |-> <<>>] : t \in Texts, u \in Texts, v \in Texts}

Init ==
    /\ db \in StructDBs \cup TextDBs
    /\ pc = "open"
    /\ f = NoFile
    /\ ti = 0 /\ ri = 0 /\ ci = 0 /\ indent = 0
    /\ warnings = 0
    /\ value = <<>>
    /\ called = "unused"
    /\ result = <<>>

Next ==
    \/ Open
    \/ PrintDecl
    \/ PrintRoot
    \/ WriteTableOpen
    \/ WriteRowOpen
    \/ WriteCell
    \/ WriteRowClose
    \/ WriteMetaOpen
    \/ MetaCellsDone
    \/ WriteMetaClose
    \/ WriteTableClose
    \/ PrintRootClose
    \/ Close
    \/ OpenFails
    \/ WriteFails

Spec == Init /\ [][Next]_vars

(***************************************************************************)
(* Reading escaped text back: used to state the claims, not by the code.   *)
(***************************************************************************)
\* Whether text p occurs in t at position i.
OccursAt(t, i, p) == i + Len(p) - 1 <= Len(t) /\ SubSeq(t, i, i + Len(p) - 1) = p
\* The positions of t where p occurs.
Occurrences(t, p) == {i \in 1..Len(t) : OccursAt(t, i, p)}
\* The number of positions of t holding a code point of S.
CountIn(t, S) == Cardinality({i \in 1..Len(t) : t[i] \in S})

EntLt   == <<AMP, 108, 116, 59>>
EntGt   == <<AMP, 103, 116, 59>>
EntAmp  == <<AMP, 97, 109, 112, 59>>
EntQuot == <<AMP, 113, 117, 111, 116, 59>>
EntApos == <<AMP, 97, 112, 111, 115, 59>>
RefOpen == <<AMP, 35, 120>>

\* The code points the claims list as illegal.
Illegal == (0..8) \cup {11, 12} \cup (14..31) \cup (55296..57343) \cup {65534, 65535}

IsHexDigit(c) == c \in (48..57) \cup (97..102)
HexValue(c) == IF c <= 57 THEN c - 48 ELSE c - 87
RECURSIVE ParseHex(_)
ParseHex(ds) == IF ds = <<>> THEN 0
                ELSE 16 * ParseHex(SubSeq(ds, 1, Len(ds) - 1)) + HexValue(ds[Len(ds)])

\* The digits of a numeric reference '&#x...;' that starts at position i of
\* t: <<>> when there is none (no ';', no digit, a non-digit, a leading 0).
RefDigits(t, i) ==
    IF ~OccursAt(t, i, RefOpen) THEN <<>>
    ELSE LET ends == {j \in (i + 4)..Len(t) : t[j] = 59} IN
         IF ends = {} THEN <<>>
         ELSE LET j  == CHOOSE e \in ends : \A e2 \in ends : e <= e2
                  ds == SubSeq(t, i + 3, j - 1) IN
              IF /\ \A k \in 1..Len(ds) : IsHexDigit(ds[k])
                 /\ (Len(ds) > 1 => ds[1] # 48)
              THEN ds ELSE <<>>

\* What stands at position i of an escaped text t: the text it takes up and
\* the text it stands for; a raw '&' that begins nothing stands for no text.
TokenAt(t, i, names) ==
    IF t[i] # AMP THEN [len |-> 1, for |-> <<t[i]>>, ok |-> TRUE]
    ELSE IF \E e \in DOMAIN names : OccursAt(t, i, e)
    THEN LET e == CHOOSE x \in DOMAIN names : OccursAt(t, i, x) IN
         [len |-> Len(e), for |-> <<names[e]>>, ok |-> TRUE]
    ELSE LET ds == RefDigits(t, i) IN
         IF ds # <<>> /\ ParseHex(ds) \in Illegal
         THEN [len |-> Len(ds) + 4, for |-> <<ParseHex(ds)>>, ok |-> TRUE]
         ELSE [len |-> 1, for |-> <<>>, ok |-> FALSE]

\* The text an escaped text stands for, reading entities of `names` and
\* numeric references of illegal code points; ok is FALSE when some '&'
\* of t begins neither.
RECURSIVE Unescape(_, _, _)
Unescape(t, i, names) ==
    IF i > Len(t) THEN [text |-> <<>>, ok |-> TRUE, refs |-> 0]
    ELSE LET tok  == TokenAt(t, i, names)
             rest == Unescape(t, i + tok.len, names) IN
         [text |-> tok.for \o rest.text,
          ok   |-> tok.ok /\ rest.ok,
          refs |-> rest.refs + (IF t[i] = AMP THEN 1 ELSE 0)]

\* Entity names an attribute value may hold, with and without &apos;.
AttNamesApos == (EntLt :> LT) @@ (EntAmp :> AMP) @@ (EntQuot :> QUOT) @@ (EntApos :> APOS)
AttNames     == (EntLt :> LT) @@ (EntAmp :> AMP) @@ (EntQuot :> QUOT)
\* Entity names character data may hold.
TextNames    == (EntLt :> LT) @@ (EntAmp :> AMP) @@ (EntGt :> GT)

\* The text between the two quotes of an attribute value.
Body(r) == SubSeq(r, 2, Len(r) - 1)
Quoted(r) == Len(r) >= 2 /\ r[1] = QUOT /\ r[Len(r)] = QUOT

(***************************************************************************)
(* Properties of the escaper, under SpecEsc.                               *)
(***************************************************************************)

\* C1 as stated: the result of _formatAttribute is the text between two
\* double quotes, and that text holds no raw '<', '"' or "'", every '&' in it
\* begins a replacement, and it reads back (&lt; &amp; &quot; &apos; and
\* numeric references) as the argument.
C1_AsStated ==
    called = "attribute" =>
        /\ Quoted(result)
        /\ CountIn(Body(result), {LT, QUOT, APOS}) = 0
        /\ Unescape(Body(result), 1, AttNamesApos).ok
        /\ Unescape(Body(result), 1, AttNamesApos).text = value

\* C1 amended: the result of _formatAttribute is the text between two double
\* quotes; that text holds no raw '<' and no raw '"'; every '&' in it begins
\* a replacement and there is one '&' per matched character of the argument;
\* it reads back (&lt; &amp; &quot; and numeric references) as the argument;
\* and every "'" of the argument is in the result as it is, not as &apos;.
C1_AttributeEscaped ==
    called = "attribute" =>
        LET u == Unescape(Body(result), 1, AttNames) IN
        /\ Quoted(result)
        /\ CountIn(Body(result), {LT, QUOT}) = 0
        /\ u.ok
        /\ u.text = value
        /\ u.refs = CountIn(value, {LT, AMP, QUOT} \cup Illegal)
        /\ CountIn(Body(result), {APOS}) = CountIn(value, {APOS})
        /\ Occurrences(result, EntApos) = {}

\* C1 witness: _formatAttribute has returned for a text holding " & and '.
C1_Witness ==
    /\ called = "attribute"
    /\ value = <<QUOT, AMP, APOS>>
    /\ result = <<QUOT>> \o EntQuot \o EntAmp \o <<APOS, QUOT>>

\* C2: the result of _formatElementText holds no '<', no ']]>', no '&' that
\* does not begin a replacement; it reads back (&lt; &amp; &gt; and numeric
\* references) as the argument; there is one '&gt;' per ']]>' of the
\* argument; ']]]>' gives ']]]&gt;' and ']]>]]>' gives ']]&gt;]]&gt;'.
C2_CharDataEscaped ==
    called = "text" =>
        LET u == Unescape(result, 1, TextNames) IN
        /\ CountIn(result, {LT}) = 0
        /\ Occurrences(result, CDEND) = {}
        /\ u.ok
        /\ u.text = value
        /\ u.refs = CountIn(value, {LT, AMP} \cup Illegal)
                    + Cardinality(Occurrences(value, CDEND))
        /\ Cardinality(Occurrences(result, EntGt))
               = Cardinality(Occurrences(value, CDEND))
        /\ (value = <<RBRACK>> \o CDEND =>
                result = <<RBRACK, RBRACK, RBRACK>> \o EntGt)
        /\ (value = CDEND \o CDEND =>
                result = <<RBRACK, RBRACK>> \o EntGt \o <<RBRACK, RBRACK>> \o EntGt)

\* C2 witness: _formatElementText has returned for ']]>]]>'.
C2_Witness ==
    /\ called = "text"
    /\ value = CDEND \o CDEND
    /\ Occurrences(result, EntGt) = {3, 9}

\* A text with no reserved character, no ']]>' and no illegal character.
Clean(s) ==
    /\ CountIn(s, {LT, AMP, QUOT, APOS} \cup Illegal) = 0
    /\ Occurrences(s, CDEND) = {}

\* C3: for a clean text _formatAttribute returns '"' + s + '"' and
\* _formatElementText returns s, with no warning; a text of tabs, line feeds
\* and carriage returns is clean.
C3_CleanUnchanged ==
    /\ (\A i \in 1..Len(value) : value[i] \in {9, 10, 13}) => Clean(value)
    /\ Clean(value) =>
        /\ called = "attribute" => result = <<QUOT>> \o value \o <<QUOT>>
        /\ called = "text" => result = value
        /\ warnings = 0

\* C3 witness: _formatAttribute has returned for TAB LF CR.
C3_Witness ==
    /\ called = "attribute"
    /\ value = <<9, 10, 13>>
    /\ result = <<QUOT, 9, 10, 13, QUOT>>

\* The escaped text without the quotes _formatAttribute adds.
Escaped(which, v) ==
    IF which = "attribute" THEN Body(_formatAttribute(v).out)
    ELSE _formatElementText(v).out
Returned == IF called = "attribute" THEN Body(result) ELSE result

\* C4: after either function has returned, for every illegal code point at a
\* position i of the argument the result is the escaped text before i, then
\* '&#x', the lower-case hexadecimal digits of the code point without a
\* leading zero, ';', then the escaped text after i; one warning was raised
\* per illegal code point; U+0000 gives '&#x0;'.
C4_IllegalAsReference ==
    called # "none" =>
        /\ warnings = CountIn(value, Illegal)
        /\ \A i \in 1..Len(value) :
             value[i] \in Illegal =>
               LET before == Escaped(called, SubSeq(value, 1, i - 1))
                   after  == Escaped(called, SubSeq(value, i + 1, Len(value)))
                   from   == Len(before) + 1
                   to     == Len(Returned) - Len(after)
                   ref    == SubSeq(Returned, from, to)
                   ds     == RefDigits(ref, 1)
               IN /\ from <= to
                  /\ SubSeq(Returned, 1, from - 1) = before
                  /\ SubSeq(Returned, to + 1, Len(Returned)) = after
                  /\ ds # <<>>
                  /\ Len(ref) = Len(ds) + 4
                  /\ ParseHex(ds) = value[i]
                  /\ (value[i] = 0 => ref = <<AMP, 35, 120, 48, 59>>)

\* C4 witness: _formatElementText has returned for 'a', U+0000, '<' with one
\* warning.
C4_Witness ==
    /\ called = "text"
    /\ value = <<97, 0, LT>>
    /\ result = <<97, AMP, 35, 120, 48, 59>> \o EntLt
    /\ warnings = 1

\* The length of the numeric reference of code point c.
RefLen(c) == IF c < 16 THEN 5 ELSE IF c < 256 THEN 6 ELSE IF c < 4096 THEN 7 ELSE 8
\* By how much escaping lengthens text v (quotes not counted).
Growth(which, v) ==
    LET ill == {i \in 1..Len(v) : v[i] \in Illegal} IN
      3 * CountIn(v, {LT}) + 4 * CountIn(v, {AMP})
    + (IF which = "attribute" THEN 5 * CountIn(v, {QUOT})
       ELSE 3 * Cardinality(Occurrences(v, CDEND)))
    + 4 * Cardinality({i \in ill : RefLen(v[i]) = 5})
    + 5 * Cardinality({i \in ill : RefLen(v[i]) = 6})
    + 6 * Cardinality({i \in ill : RefLen(v[i]) = 7})
    + 7 * Cardinality({i \in ill : RefLen(v[i]) = 8})

\* C10: the result is as long as the argument plus what each replacement adds
\* (nothing substituted is substituted again); cutting the argument anywhere
\* but inside a ']]>' and escaping the two parts gives the result's two
\* parts in order; '<' gives '&lt;' and '&lt;' gives '&amp;lt;'.
C10_SinglePass ==
    called # "none" =>
        /\ Len(Returned) = Len(value) + Growth(called, value)
        /\ \A k \in 0..Len(value) :
             (called = "text" =>
                  ~ \E o \in Occurrences(value, CDEND) : o <= k /\ k < o + 2)
             => Returned = Escaped(called, SubSeq(value, 1, k))
                           \o Escaped(called, SubSeq(value, k + 1, Len(value)))
        /\ (value = <<LT>> => Returned = EntLt)
        /\ (value = EntLt => Returned = EntAmp \o <<108, 116, 59>>)

\* C10 witness: _formatElementText has returned '&amp;lt;' for '&lt;'.
C10_Witness ==
    /\ called = "text"
    /\ value = EntLt
    /\ result = EntAmp \o <<108, 116, 59>>

(***************************************************************************)
(* Reading the written file back: used to state the claims, not by the     *)
(* code.                                                                   *)
(***************************************************************************)
\* The members of a set of naturals in increasing order.
Ascending(S) ==
    [k \in 1..Cardinality(S) |->
        CHOOSE x \in S : Cardinality({y \in S : y <= x}) = k]

\* The lines of a text: the pieces its line feeds end.
LinesOf(t) ==
    LET ends == Ascending({i \in 1..Len(t) : t[i] = LF}) IN
    [k \in 1..Len(ends) |->
        SubSeq(t, (IF k = 1 THEN 1 ELSE ends[k - 1] + 1), ends[k] - 1)]

\* The number of spaces a line starts with, and the line without them.
LeadingSpaces(l) ==
    Cardinality({i \in 1..Len(l) : \A j \in 1..i : l[j] = SPACE})
Stripped(l) == SubSeq(l, LeadingSpaces(l) + 1, Len(l))
EndsWith(l, p) == Len(l) >= Len(p) /\ SubSeq(l, Len(l) - Len(p) + 1, Len(l)) = p

\* What a line without its indentation is.
LineKind(l) ==
    IF OccursAt(l, 1, TableOpenA \o <<QUOT>>) /\ EndsWith(l, <<QUOT, GT>>)
         /\ CountIn(l, {LT}) = 1 THEN "table"
    ELSE IF OccursAt(l, 1, RowOpenA \o <<QUOT>>) /\ EndsWith(l, <<QUOT, GT>>)
         /\ CountIn(l, {LT}) = 1 THEN "row"
    ELSE IF OccursAt(l, 1, CellOpenA \o <<QUOT>>) /\ EndsWith(l, CellClose)
         /\ CountIn(l, {LT}) = 2 THEN "cell"
    ELSE IF l = MetaOpen THEN "metatable"
    ELSE IF l = TableClose THEN "/table"
    ELSE IF l = RowClose THEN "/row"
    ELSE IF l = MetaClose THEN "/metatable"
    ELSE "other"

\* The element a closing tag closes.
Closed(kind) ==
    CASE kind = "/table" -> "table"
      [] kind = "/metatable" -> "metatable"
      [] kind = "/row" -> "row"

\* Whether lines i.. are well nested and indented, `open` being the elements
\* open so far, outermost first.
RECURSIVE Nested(_, _, _)
Nested(ls, i, open) ==
    IF i > Len(ls) THEN open = <<>>
    ELSE LET n    == LeadingSpaces(ls[i])
             kind == LineKind(Stripped(ls[i]))
             rest(o) == Nested(ls, i + 1, o)
         IN
         CASE kind = "table" ->
                open = <<>> /\ n = 4 /\ rest(<<"table">>)
           [] kind = "metatable" ->
                open = <<"table">> /\ n = 8 /\ rest(<<"table", "metatable">>)
           [] kind = "row" ->
                \/ open = <<"table">> /\ n = 8 /\ rest(<<"table", "row">>)
                \/ open = <<"table", "metatable">> /\ n = 12
                     /\ rest(<<"table", "metatable", "row">>)
           [] kind = "cell" ->
                \/ open \in {<<"table", "row">>, <<"table", "metatable">>}
                     /\ n = 12 /\ rest(open)
                \/ open = <<"table", "metatable", "row">> /\ n = 16 /\ rest(open)
           [] kind \in {"/table", "/metatable", "/row"} ->
                /\ open # <<>>
                /\ open[Len(open)] = Closed(kind)
                /\ n = 4 * Len(open)
                /\ rest(SubSeq(open, 1, Len(open) - 1))
           [] OTHER -> FALSE

\* The document: declaration, root, well-nested indented lines, root end.
WellFormedLines(ls) ==
    /\ Len(ls) >= 3
    /\ ls[1] = XmlDecl
    /\ ls[2] = RootOpen
    /\ ls[Len(ls)] = RootClose
    /\ Nested(SubSeq(ls, 3, Len(ls) - 1), 1, <<>>)

\* Every text of a database.
RowTexts(r) == {r.ns, r.oid} \cup {r.cells[i].column : i \in DOMAIN r.cells}
               \cup {r.cells[i].val : i \in DOMAIN r.cells}
MetaTexts(m) == {m.cells[i].column : i \in DOMAIN m.cells}
                \cup {m.cells[i].val : i \in DOMAIN m.cells}
                \cup UNION {RowTexts(m.rows[i]) : i \in DOMAIN m.rows}
DbTexts(d) ==
    UNION {{d.tables[k].ns, d.tables[k].oid}
           \cup UNION {RowTexts(d.tables[k].rows[i]) : i \in DOMAIN d.tables[k].rows}
           : k \in DOMAIN d.tables}
    \cup UNION {MetaTexts(d.metaTables[k]) : k \in DOMAIN d.metaTables}

\* No text of the database holds a line feed.
NoLineFeed(d) == \A t \in DbTexts(d) : CountIn(t, {LF}) = 0

(***************************************************************************)
(* Properties of the writer, under Spec.                                   *)
(***************************************************************************)

\* C6 as stated: for every database the lines of the finished file are the
\* declaration, '<morkxml>', lines indented by four spaces per depth with
\* every opening tag closed at its own indentation and every cell on one
\* line, and '</morkxml>'.
C6_AsStated ==
    pc = "done" => WellFormedLines(LinesOf(f.data))

\* C6 amended: the same, for every database none of whose texts holds a line
\* feed (U+000A).
C6_IndentedNesting ==
    pc = "done" /\ NoLineFeed(db) => WellFormedLines(LinesOf(f.data))

\* C6 witness: a finished file with a cell at depth 4 (in a metatable row)
\* and a table row.
C6_Witness ==
    /\ pc = "done"
    /\ NoLineFeed(db)
    /\ \E k \in DOMAIN db.tables :
         /\ db.tables[k].rows # <<>>
         /\ <<db.tables[k].ns, db.tables[k].oid>> \in DOMAIN db.metaTables
         /\ LET m == db.metaTables[<<db.tables[k].ns, db.tables[k].oid>>] IN
            m.rows # <<>> /\ m.rows[1].cells # <<>>
    /\ \E l \in DOMAIN LinesOf(f.data) :
         LeadingSpaces(LinesOf(f.data)[l]) = 16

\* C7: whenever _outputHelper has been left, by returning or by an
\* exception, a file it opened is closed; and the file is closed only after
\* '</morkxml>' has been written.
C7_ClosedOnEveryExit ==
    /\ (pc \in {"done", "raised"} /\ f.opened) => f.closed
    /\ f.closed => EndsWith(f.data, RootClose \o <<LF>>)

\* The tags of a text: every '<' of it, in order, with what it begins.
KindAt(t, i) ==
    IF OccursAt(t, i, TableOpenA) THEN "table"
    ELSE IF OccursAt(t, i, RowOpenA) THEN "row"
    ELSE IF OccursAt(t, i, CellOpenA) THEN "cell"
    ELSE IF OccursAt(t, i, CellClose) THEN "/cell"
    ELSE IF OccursAt(t, i, RowClose) THEN "/row"
    ELSE IF OccursAt(t, i, TableClose) THEN "/table"
    ELSE IF OccursAt(t, i, MetaOpen) THEN "metatable"
    ELSE IF OccursAt(t, i, MetaClose) THEN "/metatable"
    ELSE IF OccursAt(t, i, RootOpen) THEN "root"
    ELSE IF OccursAt(t, i, RootClose) THEN "/root"
    ELSE IF OccursAt(t, i, XmlDecl) THEN "decl"
    ELSE "other"
Tags(t) ==
    LET at == Ascending({i \in 1..Len(t) : t[i] = LT}) IN
    [k \in 1..Len(at) |-> [pos |-> at[k], kind |-> KindAt(t, at[k])]]
KindOf(ev, i) == IF i <= Len(ev) THEN ev[i].kind ELSE "end"
NKind(ev, kind) == Cardinality({i \in 1..Len(ev) : ev[i].kind = kind})

\* The elements the tags spell, read by the grammar
\*   table     ::= <table> row* metatable? </table>
\*   metatable ::= <metatable> cell* row* </metatable>
\*   row       ::= <row> cell* </row>
\* each as the position of its opening tag and its parts in order.
RECURSIVE ReadCells(_, _)
ReadCells(ev, i) ==
    IF KindOf(ev, i) = "cell" /\ KindOf(ev, i + 1) = "/cell"
    THEN LET r == ReadCells(ev, i + 2) IN
         [cells |-> <<ev[i].pos>> \o r.cells, next |-> r.next]
    ELSE [cells |-> <<>>, next |-> i]
RECURSIVE ReadRows(_, _)
ReadRows(ev, i) ==
    IF KindOf(ev, i) = "row" /\ KindOf(ev, ReadCells(ev, i + 1).next) = "/row"
    THEN LET c == ReadCells(ev, i + 1)
             r == ReadRows(ev, c.next + 1) IN
         [rows |-> <<[pos |-> ev[i].pos, cells |-> c.cells]>> \o r.rows,
          next |-> r.next]
    ELSE [rows |-> <<>>, next |-> i]
ReadMeta(ev, i) ==
    LET c == ReadCells(ev, i + 1)
        r == ReadRows(ev, c.next) IN
    IF KindOf(ev, i) = "metatable" /\ KindOf(ev, r.next) = "/metatable"
    THEN [meta |-> <<[pos |-> ev[i].pos, cells |-> c.cells, rows |-> r.rows]>>,
          next |-> r.next + 1]
    ELSE [meta |-> <<>>, next |-> i]
RECURSIVE ReadTables(_, _)
ReadTables(ev, i) ==
    LET r == ReadRows(ev, i + 1)
        m == ReadMeta(ev, r.next) IN
    IF KindOf(ev, i) = "table" /\ KindOf(ev, m.next) = "/table"
    THEN LET rest == ReadTables(ev, m.next + 1) IN
         [tables |-> <<[pos |-> ev[i].pos, rows |-> r.rows, meta |-> m.meta]>>
                     \o rest.tables,
          next |-> rest.next]
    ELSE [tables |-> <<>>, next |-> i]
ReadDoc(ev) ==
    LET t == ReadTables(ev, 3) IN
    [ok |-> /\ KindOf(ev, 1) = "decl"
            /\ KindOf(ev, 2) = "root"
            /\ KindOf(ev, t.next) = "/root"
            /\ t.next = Len(ev),
     tables |-> t.tables]

\* Whether the tag at a position of the file is the one of a table, a row, a
\* cell of the database.
TableIs(pos, t) == OccursAt(f.data, pos, TableOpenText(0, t.ns, t.oid).text)
RowIs(pos, r)   == OccursAt(f.data, pos, RowOpenText(0, r.ns, r.oid).text)
CellIs(pos, c)  == OccursAt(f.data, pos, CellText(0, c.column, c.val).text)
CellsAre(ps, cells) ==
    /\ Len(ps) = Len(cells)
    /\ \A i \in 1..Len(ps) : CellIs(ps[i], cells[i])
RowsAre(rs, rows) ==
    /\ Len(rs) = Len(rows)
    /\ \A i \in 1..Len(rs) :
         RowIs(rs[i].pos, rows[i]) /\ CellsAre(rs[i].cells, rows[i].cells)

KeyOf(t) == <<t.ns, t.oid>>

\* C5: the elements of the finished file follow the grammar (rows before the
\* metatable, metatable cells before metatable rows), and they are the
\* database's: the tables in stored order, each with its rows in stored
\* order, each row with its cells in stored order, and the metatable of the
\* table's key with its cells and rows in stored order; none is missing,
\* repeated or moved.
C5_StoredOrder ==
    pc = "done" =>
        LET doc == ReadDoc(Tags(f.data)) IN
        /\ doc.ok
        /\ Len(doc.tables) = Len(db.tables)
        /\ \A k \in 1..Len(doc.tables) :
             LET got == doc.tables[k]
                 t   == db.tables[k] IN
             /\ TableIs(got.pos, t)
             /\ RowsAre(got.rows, t.rows)
             /\ Len(got.meta) = (IF KeyOf(t) \in DOMAIN db.metaTables THEN 1 ELSE 0)
             /\ Len(got.meta) = 1 =>
                  /\ CellsAre(got.meta[1].cells, db.metaTables[KeyOf(t)].cells)
                  /\ RowsAre(got.meta[1].rows, db.metaTables[KeyOf(t)].rows)

\* C5 witness: a finished file for a database with two tables, one of them
\* with a row of two cells.
C5_Witness ==
    /\ pc = "done"
    /\ Len(db.tables) = 2
    /\ \E k \in 1..2 : \E i \in DOMAIN db.tables[k].rows :
         Len(db.tables[k].rows[i].cells) = 2
    /\ NKind(Tags(f.data), "cell") = 2

\* The numbers of rows and of cells the writer is to write.
RECURSIVE CellsOfRows(_)
CellsOfRows(rs) == IF rs = <<>> THEN 0 ELSE Len(rs[1].cells) + CellsOfRows(Tail(rs))
RECURSIVE RowsToWrite(_, _)
RowsToWrite(d, k) ==
    IF k = 0 THEN 0
    ELSE RowsToWrite(d, k - 1) + Len(d.tables[k].rows)
         + (IF KeyOf(d.tables[k]) \in DOMAIN d.metaTables
            THEN Len(d.metaTables[KeyOf(d.tables[k])].rows) ELSE 0)
RECURSIVE CellsToWrite(_, _)
CellsToWrite(d, k) ==
    IF k = 0 THEN 0
    ELSE CellsToWrite(d, k - 1) + CellsOfRows(d.tables[k].rows)
         + (IF KeyOf(d.tables[k]) \in DOMAIN d.metaTables
            THEN Len(d.metaTables[KeyOf(d.tables[k])].cells)
                 + CellsOfRows(d.metaTables[KeyOf(d.tables[k])].rows)
            ELSE 0)
\* The index in ev of the n-th tag of a kind.
NthOf(ev, kind, n) ==
    CHOOSE i \in 1..Len(ev) :
        /\ ev[i].kind = kind
        /\ Cardinality({j \in 1..i : ev[j].kind = kind}) = n

\* C8: the finished file holds one <table> and one </table> per entry of
\* db.tables, one <row> per row, one <cell> per cell; between the k-th
\* <table> and the k-th </table> there is one <metatable> when db.metaTables
\* has the table's key and none otherwise; a table with no row and no
\* metatable is its opening line and then at once its closing line.
C8_OneElementEach ==
    pc = "done" =>
        LET ev == Tags(f.data) IN
        /\ NKind(ev, "table") = Len(db.tables)
        /\ NKind(ev, "/table") = Len(db.tables)
        /\ NKind(ev, "row") = RowsToWrite(db, Len(db.tables))
        /\ NKind(ev, "/row") = RowsToWrite(db, Len(db.tables))
        /\ NKind(ev, "cell") = CellsToWrite(db, Len(db.tables))
        /\ NKind(ev, "/cell") = CellsToWrite(db, Len(db.tables))
        /\ \A k \in 1..Len(db.tables) :
             LET a == NthOf(ev, "table", k)
                 b == NthOf(ev, "/table", k)
                 t == db.tables[k]
                 n == IF KeyOf(t) \in DOMAIN db.metaTables THEN 1 ELSE 0 IN
             /\ a < b
             /\ Cardinality({i \in a..b : ev[i].kind = "metatable"}) = n
             /\ Cardinality({i \in a..b : ev[i].kind = "/metatable"}) = n
             /\ (t.rows = <<>> /\ n = 0 =>
                   /\ b = a + 1
                   /\ OccursAt(f.data, ev[a].pos,
                               TableOpenText(0, t.ns, t.oid).text \o <<LF>>
                               \o IndentStr(1) \o TableClose \o <<LF>>))

\* C8 witness: a finished file for two tables, the first with a row and a
\* metatable, the second with no row and no metatable.
C8_Witness ==
    /\ pc = "done"
    /\ Len(db.tables) = 2
    /\ db.tables[1].rows # <<>>
    /\ KeyOf(db.tables[1]) \in DOMAIN db.metaTables
    /\ db.tables[2].rows = <<>>
    /\ KeyOf(db.tables[2]) \notin DOMAIN db.metaTables
    /\ NKind(Tags(f.data), "metatable") = 1

\* The parts of a cell line l: the text between the quotes of the column
\* attribute (up to the first '"' after '<cell column="') and the text
\* between the '>' that follows and the final '</cell>'.
CellAttr(l) ==
    LET from == Len(CellOpenA) + 2
        q == CHOOSE i \in from..Len(l) :
                 l[i] = QUOT /\ \A j \in from..(i - 1) : l[j] # QUOT IN
    SubSeq(l, from, q - 1)
CellContent(l) ==
    SubSeq(l, Len(CellOpenA) + Len(CellAttr(l)) + 4, Len(l) - Len(CellClose))
IsCellLine(l) ==
    /\ OccursAt(l, 1, CellOpenA \o <<QUOT>>)
    /\ \E i \in (Len(CellOpenA) + 2)..Len(l) : l[i] = QUOT
    /\ OccursAt(l, Len(CellOpenA) + Len(CellAttr(l)) + 2, <<QUOT, GT>>)
    /\ EndsWith(l, CellClose)
    /\ Len(l) >= Len(CellOpenA) + Len(CellAttr(l)) + 3 + Len(CellClose)

\* C9: while a cell loop is in progress and has written a cell (ci > 1),
\* the last line of the file is '<cell column="A">T</cell>' in which A is
\* the column name of that cell escaped as an attribute value (no raw '"',
\* one '&quot;' per '"' of the name, reading back as the name) and T is its
\* value escaped as character data (every '"' and "'" of the value raw, no
\* '&quot;' and no '&apos;', reading back as the value).  As the value may
\* hold line feeds, the line is read from the last '<cell column=' on.
C9_CellEscaping ==
    pc \in {"cells", "mrcells", "mcells"} /\ ci > 1 =>
        LET from == CHOOSE i \in Occurrences(f.data, CellOpenA) :
                        \A j \in Occurrences(f.data, CellOpenA) : j <= i
            l    == SubSeq(f.data, from, Len(f.data) - 1)
            cell == CurCells[ci - 1] IN
        /\ Occurrences(f.data, CellOpenA) # {}
        /\ IsCellLine(l)
        /\ Unescape(CellAttr(l), 1, AttNames).ok
        /\ Unescape(CellAttr(l), 1, AttNames).text = cell.column
        /\ Cardinality(Occurrences(CellAttr(l), EntQuot)) = CountIn(cell.column, {QUOT})
        /\ Unescape(CellContent(l), 1, TextNames).ok
        /\ Unescape(CellContent(l), 1, TextNames).text = cell.val
        /\ CountIn(CellContent(l), {QUOT}) = CountIn(cell.val, {QUOT})
        /\ CountIn(CellContent(l), {APOS}) = CountIn(cell.val, {APOS})
        /\ Occurrences(CellContent(l), EntQuot) = {}
        /\ Occurrences(CellContent(l), EntApos) = {}

\* C9 witness: the cell of column 'a"b' and value 'a"b' has just been
\* written as '<cell column="a&quot;b">a"b</cell>'.
C9_Witness ==
    /\ pc = "cells"
    /\ ci = 2
    /\ CurCells[1] = [column |-> <<97, QUOT, 98>>, val |-> <<97, QUOT, 98>>]
    /\ EndsWith(f.data, CellOpenA \o <<QUOT, 97>> \o EntQuot \o <<98, QUOT, GT>>
                        \o <<97, QUOT, 98>> \o CellClose \o <<LF>>)

====
